---------------------------- MODULE Spec2Model ----------------------------
(***************************************************************************)
(* A model of main.py: the GCS-triggered MeloTTS function.                 *)
(*                                                                         *)
(* The process reads its configuration once (storage client, environment), *)
(* then serves invocations of melo_tts_gcs_trigger.  Every call into a     *)
(* collaborator (storage existence check, download, engine construction,   *)
(* temp-file creation, synthesis, upload, os.remove) is one step whose     *)
(* outcome the environment chooses.  Strings the code inspects character   *)
(* by character (object names, the language, the text) are sequences of    *)
(* one-character strings; strings that are only compared are TLA+ strings. *)
(***************************************************************************)
EXTENDS Integers, Sequences, FiniteSets, TLC

(***************************************************************************)
(* Bounds                                                                  *)
(***************************************************************************)
\* invocation slots of one process
NumInvocations == 2

Invocations == 1 .. NumInvocations

\* names tempfile.NamedTemporaryFile can hand out: one per invocation slot
TempPaths == 1 .. NumInvocations

\* Python's None, for temp_output_path and selected_speaker_id_for_tts
None == 0

(***************************************************************************)
(* Characters and strings                                                  *)
(***************************************************************************)
UpperToLower ==
    [A |-> "a", B |-> "b", C |-> "c", D |-> "d", E |-> "e", F |-> "f",
     G |-> "g", H |-> "h", I |-> "i", J |-> "j", K |-> "k", L |-> "l",
     M |-> "m", N |-> "n", O |-> "o", P |-> "p", Q |-> "q", R |-> "r",
     S |-> "s", T |-> "t", U |-> "u", V |-> "v", W |-> "w", X |-> "x",
     Y |-> "y", Z |-> "z"]

LowerChar(c) == IF c \in DOMAIN UpperToLower THEN UpperToLower[c] ELSE c

UpperChar(c) ==
    IF \E u \in DOMAIN UpperToLower : UpperToLower[u] = c
    THEN CHOOSE u \in DOMAIN UpperToLower : UpperToLower[u] = c
    ELSE c

\* str.lower()
Lower(s) == [k \in 1 .. Len(s) |-> LowerChar(s[k])]

\* str.upper()
Upper(s) == [k \in 1 .. Len(s) |-> UpperChar(s[k])]

\* str.endswith(suffix)
EndsWith(s, suffix) ==
    /\ Len(suffix) <= Len(s)
    /\ SubSeq(s, Len(s) - Len(suffix) + 1, Len(s)) = suffix

Whitespace == {" ", "\t", "\n", "\r"}

\* the text as downloaded, nothing dropped
StripNone(s) == s

\* str.strip(): drop leading and trailing whitespace
Strip(s) ==
    LET keep == {k \in 1 .. Len(s) : s[k] \notin Whitespace}
    IN  IF keep = {} THEN <<>>
        ELSE LET lo == CHOOSE k \in keep : \A m \in keep : k <= m
                 hi == CHOOSE k \in keep : \A m \in keep : m <= k
             IN  SubSeq(s, lo, hi)

\* str.rfind(c), 1-based; 0 when c does not occur
RFind(s, c) ==
    LET at == {k \in 1 .. Len(s) : s[k] = c}
    IN  IF at = {} THEN 0 ELSE CHOOSE k \in at : \A m \in at : m <= k

\* os.path.splitext(p)[0]: cut at the last dot of the last path component,
\* unless that component has nothing but dots before it
SplitExtRoot(p) ==
    LET sepIndex == RFind(p, "/")
        dotIndex == RFind(p, ".")
    IN  IF /\ dotIndex > sepIndex
           /\ \E k \in (sepIndex + 1) .. (dotIndex - 1) : p[k] # "."
        THEN SubSeq(p, 1, dotIndex - 1)
        ELSE p

DotTxt == <<".", "t", "x", "t">>

DotWav == <<".", "w", "a", "v">>

(***************************************************************************)
(* Inputs the environment can supply                                       *)
(***************************************************************************)
\* os.environ values; "" stands for an unset or empty variable
OutputBuckets == {"", "out", "in"}

EnvLanguages ==
    {<<"E", "N">>, <<"e", "n">>, <<"E", "S">>, <<"f", "r">>,
     <<"Z", "H">>, <<"j", "p">>, <<"K", "R">>, <<"D", "E">>}

EnvSpeakers == {"EN-Default", "EN-US", "EN-AU", "ES", "robot"}

\* event_data.get("bucket"); "" stands for a missing or empty field
EventBuckets == {"", "in"}

\* event_data.get("name"); <<>> stands for a missing or empty field
EventNames ==
    {<<>>,
     <<"a", ".", "t", "x", "t">>,
     <<"a", ".", "T", "X", "T">>,
     <<"a", ".", "m", "d">>,
     <<"t", "x", "t">>,
     <<".", "t", "x", "t">>,
     <<"d", "/", ".", "t", "x", "t">>,
     <<"d", ".", "v", "/", "b", ".", "c", ".", "t", "x", "t">>}

\* decoded contents of a source object
SourceTexts ==
    {<<>>, <<" ", "\n">>, <<"h", "i">>, <<" ", "h", "i", "\n">>}

\* model.hps.data.spk2id: label -> identity, in the engine's insertion order
SpeakerCatalogs ==
    {<<>>,
     <<[label |-> "EN-US", id |-> 10], [label |-> "EN-BR", id |-> 11],
       [label |-> "EN-Default", id |-> 14]>>,
     <<[label |-> "EN-AU", id |-> 13], [label |-> "EN-US", id |-> 10]>>,
     <<[label |-> "ES", id |-> 20]>>,
     <<[label |-> "FR", id |-> 30], [label |-> "ES", id |-> 20]>>}

\* failures of the storage backend (google.cloud exceptions)
BackendErrors == {"NotFound", "Forbidden", "ServiceUnavailable"}

\* failures of the synthesis engine (TTS(...), tts_to_file)
EngineErrors == {"RuntimeError", "ValueError"}

(***************************************************************************)
(* Exceptions and results                                                  *)
(***************************************************************************)
\* isinstance(exc, cls) for the exception classes that occur
IsInstance(exc, cls) ==
    \/ cls = "Exception"
    \/ exc = cls
    \/ exc = "UnicodeDecodeError" /\ cls = "ValueError"

Returned(msg, status) == [kind |-> "returned", msg |-> msg, status |-> status]

Raised(exc) == [kind |-> "raised", exc |-> exc]

NoOutcome == [kind |-> "none"]

\* read_text_from_gcs: the except clauses around the storage calls
ReadTranslate(exc) ==
    IF IsInstance(exc, "NotFound") THEN "FileNotFoundError"
    ELSE IF IsInstance(exc, "Forbidden") THEN "PermissionError"
    ELSE "RuntimeError"

\* a handler that lets RuntimeError through
ReadHandlerPropagating(exc) ==
    IF \E cls \in {"ValueError", "FileNotFoundError", "PermissionError"} :
          IsInstance(exc, cls)
    THEN Returned("Error processing input file", 200)
    ELSE Raised(exc)

\* melo_tts_gcs_trigger: the handler around read_text_from_gcs
ReadHandler(exc) ==
    IF \E cls \in {"ValueError", "FileNotFoundError", "PermissionError",
                   "RuntimeError"} : IsInstance(exc, cls)
    THEN Returned("Error processing input file",
                  IF IsInstance(exc, "RuntimeError") THEN 500 ELSE 200)
    ELSE Raised(exc)

\* upload_to_gcs: the except clauses around the upload
UploadTranslate(exc) ==
    IF IsInstance(exc, "Forbidden") THEN "PermissionError" ELSE "RuntimeError"

(***************************************************************************)
(* Decisions of melo_tts_gcs_trigger                                       *)
(***************************************************************************)
\* a filter that forgets the dot
IsTxtNameNoDot(name) == EndsWith(Lower(name), <<"t", "x", "t">>)

\* input_blob_name.lower().endswith(".txt")
IsTxtName(name) == EndsWith(Lower(name), DotTxt)

\* the language list of the HTTP variant
valid_languages_http ==
    {<<"E", "N">>, <<"E", "S">>, <<"F", "R">>, <<"Z", "H">>, <<"J", "P">>,
     <<"K", "R">>}

valid_languages == {<<"E", "N">>, <<"E", "S">>, <<"F", "R">>}

valid_en_speakers == {"EN-Default", "EN-US", "EN-BR", "EN_INDIA", "EN-AU"}

\* no fallback for a label off the allow-list
EnSpeakerNameNoFallback(speaker_input) == speaker_input

\* speaker_name_to_use for English: the configured label, or the fallback
EnSpeakerName(speaker_input) ==
    IF speaker_input \notin valid_en_speakers THEN "EN-Default" ELSE speaker_input

Keys(speaker_ids) == {speaker_ids[k].label : k \in 1 .. Len(speaker_ids)}

\* speaker_ids[label]
Lookup(speaker_ids, label) ==
    speaker_ids[CHOOSE k \in 1 .. Len(speaker_ids) : speaker_ids[k].label = label].id

\* index -1 instead of 0
LastAvailable(speaker_ids) == speaker_ids[Len(speaker_ids)].id

\* list(speaker_ids.values())[0] and speaker_ids[list(speaker_ids.keys())[0]]
FirstAvailable(speaker_ids) == speaker_ids[1].id

\* step 5 for English: [exc, name, id]; exc = "" when a speaker was selected
SelectEnglish(speaker_input, speaker_ids) ==
    LET name == EnSpeakerName(speaker_input)
    IN  IF name \notin Keys(speaker_ids)
        THEN IF speaker_ids = <<>>
             THEN [exc |-> "KeyError", name |-> name, id |-> None]
             ELSE [exc |-> "", name |-> name, id |-> FirstAvailable(speaker_ids)]
        ELSE [exc |-> "", name |-> name, id |-> Lookup(speaker_ids, name)]

\* the other languages treated as strictly as the HTTP variant treats English
SelectOtherStrict(speaker_input, speaker_ids) ==
    IF speaker_input \in Keys(speaker_ids)
    THEN [exc |-> "", name |-> speaker_input,
          id |-> Lookup(speaker_ids, speaker_input)]
    ELSE [exc |-> "KeyError", name |-> speaker_input, id |-> None]

\* step 5 for the other languages
SelectOther(speaker_input, speaker_ids) ==
    IF speaker_ids = <<>>
    THEN [exc |-> "KeyError", name |-> speaker_input, id |-> None]
    ELSE IF speaker_input \in Keys(speaker_ids)
         THEN [exc |-> "", name |-> speaker_input,
               id |-> Lookup(speaker_ids, speaker_input)]
         ELSE [exc |-> "", name |-> speaker_ids[1].label,
               id |-> FirstAvailable(speaker_ids)]

SelectSpeaker(language, speaker_input, speaker_ids) ==
    IF language = <<"E", "N">>
    THEN SelectEnglish(speaker_input, speaker_ids)
    ELSE SelectOther(speaker_input, speaker_ids)

\* ".wav" appended to the whole name
OutputBlobNameAppended(input_blob_name) == input_blob_name \o DotWav

\* f"{os.path.splitext(input_blob_name)[0]}.wav"
OutputBlobName(input_blob_name) == SplitExtRoot(input_blob_name) \o DotWav

(***************************************************************************)
(* State                                                                   *)
(***************************************************************************)
VARIABLES
    environ,                 \* os.environ, as the process found it
    storage_client,          \* TRUE: a client; FALSE: None
    OUTPUT_GCS_BUCKET_NAME,
    DEFAULT_LANGUAGE,
    DEFAULT_SPEAKER,
    concurrency,             \* invocations the platform runs in this process
    world,                   \* what events, source texts and catalogs can occur
    gcs_uri,                 \* the argument of parse_gcs_uri
    parsed,                  \* its result, once it was called
    frame,                   \* per invocation: its position and local variables
    calls,                   \* per invocation: the collaborator calls it made
    fs,                      \* temp-file paths that exist on the filesystem
    gcs                      \* objects written to storage: <<bucket, name>>

vars ==
    <<environ, storage_client, OUTPUT_GCS_BUCKET_NAME, DEFAULT_LANGUAGE,
      DEFAULT_SPEAKER, concurrency, world, gcs_uri, parsed, frame, calls, fs, gcs>>

\* what no invocation assigns
config ==
    <<environ, storage_client, OUTPUT_GCS_BUCKET_NAME, DEFAULT_LANGUAGE,
      DEFAULT_SPEAKER, concurrency, world>>

locator == <<gcs_uri, parsed>>

\* entry: the function the platform or a caller entered.  For a direct call
\* of a helper, input_bucket_name and input_blob_name hold its bucket_name
\* and (destination_)blob_name, temp_output_path its local_file_path.
NewFrame ==
    [pc |-> "idle",
     entry |-> "",
     input_bucket_name |-> "",
     input_blob_name |-> <<>>,
     read_error |-> "",
     text_content |-> <<>>,
     speaker_ids |-> <<>>,
     speaker_name_to_use |-> "",
     selected_speaker_id_for_tts |-> None,
     temp_output_path |-> None,
     pending |-> NoOutcome,
     outcome |-> NoOutcome]

\* module import: the client, then the configuration from the environment
LoadModule(client, env) ==
    /\ environ = env
    /\ storage_client = client
    /\ OUTPUT_GCS_BUCKET_NAME = env.OUTPUT_GCS_BUCKET_NAME
    /\ DEFAULT_LANGUAGE = Upper(env.DEFAULT_LANGUAGE)
    /\ DEFAULT_SPEAKER = env.DEFAULT_SPEAKER
    /\ frame = [i \in Invocations |-> NewFrame]
    /\ calls = [i \in Invocations |-> <<>>]
    /\ fs = {}
    /\ gcs = {}

Environments ==
    [OUTPUT_GCS_BUCKET_NAME : OutputBuckets,
     DEFAULT_LANGUAGE : EnvLanguages,
     DEFAULT_SPEAKER : EnvSpeakers]

\* every input of the sets above can occur
WholeWorld ==
    [events |-> EventBuckets \X EventNames,
     texts |-> SourceTexts,
     catalogs |-> SpeakerCatalogs]

NotParsed == [called |-> FALSE]

\* parse_gcs_uri is not called
NoLocator ==
    /\ gcs_uri = <<>>
    /\ parsed = NotParsed

Init ==
    /\ concurrency = 1
    /\ world = WholeWorld
    /\ NoLocator
    /\ \E client \in BOOLEAN, env \in Environments : LoadModule(client, env)

(***************************************************************************)
(* melo_tts_gcs_trigger                                                    *)
(***************************************************************************)
Call(i, c) == calls' = [calls EXCEPT ![i] = Append(@, c)]

\* the entry checks without the one on the storage client
EntryChecksNoClientCheck(input_bucket_name, input_blob_name) ==
    IF OUTPUT_GCS_BUCKET_NAME = "" THEN Raised("ValueError")
    ELSE IF input_bucket_name = "" \/ input_blob_name = <<>>
         THEN Returned("Malformed event data", 200)
    ELSE IF ~IsTxtName(input_blob_name)
         THEN Returned("Not a TXT file, skipping.", 200)
    ELSE NoOutcome

\* the entry checks without the one on the event's bucket and name
EntryChecksNoMalformedCheck(input_bucket_name, input_blob_name) ==
    IF ~storage_client THEN Raised("RuntimeError")
    ELSE IF OUTPUT_GCS_BUCKET_NAME = "" THEN Raised("ValueError")
    ELSE IF ~IsTxtName(input_blob_name)
         THEN Returned("Not a TXT file, skipping.", 200)
    ELSE NoOutcome

\* the checks before the source is read: the outcome that ends the
\* invocation there, or NoOutcome to go on
EntryChecks(input_bucket_name, input_blob_name) ==
    IF ~storage_client THEN Raised("RuntimeError")
    ELSE IF OUTPUT_GCS_BUCKET_NAME = "" THEN Raised("ValueError")
    ELSE IF input_bucket_name = "" \/ input_blob_name = <<>>
         THEN Returned("Malformed event data", 200)
    ELSE IF ~IsTxtName(input_blob_name)
         THEN Returned("Not a TXT file, skipping.", 200)
    ELSE NoOutcome

\* the checks after the read without the one on the empty text
AfterReadNoEmptyCheck(text_content) ==
    IF DEFAULT_LANGUAGE \notin valid_languages THEN Raised("ValueError")
    ELSE NoOutcome

\* the checks between the read and the try region
AfterRead(text_content) ==
    IF text_content = <<>> THEN Returned("Empty or unreadable input file.", 200)
    ELSE IF DEFAULT_LANGUAGE \notin valid_languages THEN Raised("ValueError")
    ELSE NoOutcome

\* a failed read answered with status 500 is tried once more
ExitRetrying(i, fields, out) ==
    IF out.kind = "returned" /\ "status" \in DOMAIN out /\ out.status = 500
       /\ Len(calls[i]) < 2
    THEN frame' = [frame EXCEPT ![i] = [fields EXCEPT !.pc = "read"]]
    ELSE frame' = [frame EXCEPT ![i] = [fields EXCEPT !.pc = "done", !.outcome = out]]

\* leave the function without entering the try region
Exit(i, fields, out) ==
    frame' = [frame EXCEPT ![i] = [fields EXCEPT !.pc = "done", !.outcome = out]]

\* the outcome delivered at once, the finally block skipped
LeaveSkippingFinally(i, fields, out) ==
    frame' = [frame EXCEPT ![i] = [fields EXCEPT !.pc = "done", !.outcome = out]]

\* leave the try region: the finally block runs before the outcome is delivered
Leave(i, fields, out) ==
    frame' = [frame EXCEPT ![i] = [fields EXCEPT !.pc = "finally", !.pending = out]]

Goto(i, fields, label) ==
    frame' = [frame EXCEPT ![i] = [fields EXCEPT !.pc = label]]

\* the platform delivers an event
Invoke(i) ==
    /\ i <= concurrency
    /\ frame[i].pc = "idle"
    /\ \E event \in world.events :
          LET b == event[1]
              n == event[2]
              f == [frame[i] EXCEPT !.entry = "melo_tts_gcs_trigger",
                                    !.input_bucket_name = b,
                                    !.input_blob_name = n]
              out == EntryChecks(b, n)
          IN  IF out = NoOutcome THEN Goto(i, f, "read") ELSE Exit(i, f, out)
    /\ UNCHANGED <<config, locator, calls, fs, gcs>>

\* read_text_from_gcs raises e: to the trigger's handler, or to the caller
ReadFails(i, e) ==
    Exit(i, [frame[i] EXCEPT !.read_error = e],
         IF frame[i].entry = "melo_tts_gcs_trigger" THEN ReadHandler(e)
         ELSE Raised(e))

\* read_text_from_gcs up to blob.exists()
ReadExists(i) ==
    /\ frame[i].pc = "read"
    /\ IF ~storage_client
       THEN /\ ReadFails(i, "RuntimeError")
            /\ UNCHANGED calls
       ELSE \E r \in {"True", "False", "Forbidden", "ServiceUnavailable"} :
               /\ Call(i, [op |-> "blob.exists", res |-> r])
               /\ IF r = "True" THEN Goto(i, frame[i], "download")
                  ELSE LET raised == IF r = "False" THEN "FileNotFoundError" ELSE r
                       IN  ReadFails(i, ReadTranslate(raised))
    /\ UNCHANGED <<config, locator, fs, gcs>>

\* read_text_from_gcs from blob.download_as_bytes() on, then the checks on
\* the text and the language
Download(i) ==
    /\ frame[i].pc = "download"
    /\ \/ \E content \in world.texts :
             LET f == [frame[i] EXCEPT !.text_content = Strip(content)]
                 out == AfterRead(f.text_content)
             IN  /\ Call(i, [op |-> "blob.download_as_bytes", res |-> "ok",
                             data |-> content])
                 /\ IF f.entry # "melo_tts_gcs_trigger"
                    THEN Exit(i, f, [kind |-> "returned", value |-> f.text_content])
                    ELSE IF out = NoOutcome THEN Goto(i, f, "tts")
                    ELSE Exit(i, f, out)
       \/ \E r \in BackendErrors \cup {"UnicodeDecodeError"} :
             /\ Call(i, [op |-> "blob.download_as_bytes", res |-> r, data |-> <<>>])
             /\ ReadFails(i, ReadTranslate(r))
    /\ UNCHANGED <<config, locator, fs, gcs>>

\* steps 4 and 5: build the engine, take its catalog, select the speaker
InitModel(i) ==
    /\ frame[i].pc = "tts"
    /\ \/ \E e \in EngineErrors :
             /\ Call(i, [op |-> "TTS", res |-> e])
             /\ Leave(i, frame[i], Raised(e))
       \/ \E catalog \in world.catalogs :
             LET sel == SelectSpeaker(DEFAULT_LANGUAGE, DEFAULT_SPEAKER, catalog)
                 f == [frame[i] EXCEPT !.speaker_ids = catalog,
                                       !.speaker_name_to_use = sel.name,
                                       !.selected_speaker_id_for_tts = sel.id]
             IN  /\ Call(i, [op |-> "TTS", res |-> "ok"])
                 /\ IF sel.exc = "" THEN Goto(i, f, "mktemp")
                    ELSE Leave(i, f, Raised(sel.exc))
    /\ UNCHANGED <<config, locator, fs, gcs>>

\* a name chosen without looking at the files that exist
AnyPaths == TempPaths

\* the names NamedTemporaryFile can create: it opens with O_EXCL
FreshPaths == TempPaths \ fs

\* tempfile.NamedTemporaryFile(suffix=".wav", delete=False): a fresh file
MakeTemp(i) ==
    /\ frame[i].pc = "mktemp"
    /\ \/ \E p \in FreshPaths :
             /\ fs' = fs \cup {p}
             /\ Call(i, [op |-> "NamedTemporaryFile", res |-> "ok", path |-> p])
             /\ Goto(i, [frame[i] EXCEPT !.temp_output_path = p], "synth")
       \/ /\ Call(i, [op |-> "NamedTemporaryFile", res |-> "OSError", path |-> None])
          /\ Leave(i, frame[i], Raised("OSError"))
          /\ UNCHANGED fs
    /\ UNCHANGED <<config, locator, gcs>>

\* model.tts_to_file(text_content, speaker, temp_output_path, speed)
Synthesize(i) ==
    /\ frame[i].pc = "synth"
    /\ \E r \in {"ok"} \cup EngineErrors :
          /\ Call(i, [op |-> "tts_to_file", res |-> r,
                      path |-> frame[i].temp_output_path])
          /\ IF r = "ok" THEN Goto(i, frame[i], "upload")
             ELSE Leave(i, frame[i], Raised(r))
    /\ UNCHANGED <<config, locator, fs, gcs>>

\* upload_to_gcs ends with `out`; in the trigger a normal end is followed by
\* the acknowledgment, and everything passes through the finally block
UploadEnds(i, out) ==
    IF frame[i].entry = "melo_tts_gcs_trigger"
    THEN Leave(i, frame[i],
               IF out.kind = "raised" THEN out
               ELSE Returned("Processing successful", 200))
    ELSE Exit(i, frame[i], out)

\* step 7: upload_to_gcs(temp_output_path, OUTPUT_GCS_BUCKET_NAME, output_blob_name)
Upload(i) ==
    /\ frame[i].pc = "upload"
    /\ LET trigger == frame[i].entry = "melo_tts_gcs_trigger"
           bucket_name == IF trigger THEN OUTPUT_GCS_BUCKET_NAME
                          ELSE frame[i].input_bucket_name
           destination_blob_name ==
               IF trigger THEN OutputBlobName(frame[i].input_blob_name)
               ELSE frame[i].input_blob_name
       IN  IF ~storage_client
           THEN /\ UploadEnds(i, Raised("RuntimeError"))
                /\ UNCHANGED <<calls, gcs>>
           ELSE IF bucket_name = ""
           THEN /\ UploadEnds(i, Raised("ValueError"))
                /\ UNCHANGED <<calls, gcs>>
           ELSE \E r \in {"ok", "Forbidden", "ServiceUnavailable"} :
                   /\ Call(i, [op |-> "blob.upload_from_filename", res |-> r,
                               path |-> frame[i].temp_output_path,
                               bucket |-> bucket_name,
                               name |-> destination_blob_name])
                   /\ IF r = "ok"
                      THEN /\ gcs' = gcs \cup {<<bucket_name, destination_blob_name>>}
                           /\ UploadEnds(i, [kind |-> "returned", value |-> "None"])
                      ELSE /\ UploadEnds(i, Raised(UploadTranslate(r)))
                           /\ UNCHANGED gcs
    /\ UNCHANGED <<config, locator, fs>>

\* a cleanup that only runs when the try body ran to its end
TempFileToRemoveOnSuccess(f) ==
    /\ f.temp_output_path # None
    /\ f.temp_output_path \in fs
    /\ f.pending.kind = "returned"

\* temp_output_path and os.path.exists(temp_output_path)
TempFileToRemove(f) ==
    /\ f.temp_output_path # None
    /\ f.temp_output_path \in fs

\* a cleanup whose failure replaces what the invocation was about to deliver
CleanupOutcomeEscalating(r, pending) ==
    IF r = "ok" THEN pending ELSE Raised(r)

\* what the invocation delivers after os.remove ended with r: a failure is
\* caught and printed
CleanupOutcome(r, pending) == pending

\* step 8, the finally block; then the pending return or raise takes effect
Cleanup(i) ==
    /\ frame[i].pc = "finally"
    /\ LET path == frame[i].temp_output_path
       IN  IF TempFileToRemove(frame[i])
           THEN \E r \in {"ok", "OSError"} :
                   /\ Call(i, [op |-> "os.remove", res |-> r, path |-> path])
                   /\ fs' = IF r = "ok" THEN fs \ {path} ELSE fs
                   /\ Exit(i, frame[i], CleanupOutcome(r, frame[i].pending))
           ELSE /\ Exit(i, frame[i], frame[i].pending)
                /\ UNCHANGED <<calls, fs>>
    /\ UNCHANGED <<config, locator, gcs>>

Next ==
    \E i \in Invocations :
        \/ Invoke(i)
        \/ ReadExists(i)
        \/ Download(i)
        \/ InitModel(i)
        \/ MakeTemp(i)
        \/ Synthesize(i)
        \/ Upload(i)
        \/ Cleanup(i)

Spec == Init /\ [][Next]_vars

(***************************************************************************)
(* The storage helpers called on their own                                 *)
(***************************************************************************)
\* a caller enters read_text_from_gcs(bucket_name, blob_name)
CallReadTextFromGcs(i) ==
    /\ i <= concurrency
    /\ frame[i].pc = "idle"
    /\ \E event \in world.events :
          Goto(i, [frame[i] EXCEPT !.entry = "read_text_from_gcs",
                                   !.input_bucket_name = event[1],
                                   !.input_blob_name = event[2]], "read")
    /\ UNCHANGED <<config, locator, calls, fs, gcs>>

\* a caller enters upload_to_gcs(local_file_path, bucket_name,
\* destination_blob_name)
CallUploadToGcs(i) ==
    /\ i <= concurrency
    /\ frame[i].pc = "idle"
    /\ \E path \in TempPaths, bucket_name \in OutputBuckets, event \in world.events :
          Goto(i, [frame[i] EXCEPT !.entry = "upload_to_gcs",
                                   !.temp_output_path = path,
                                   !.input_bucket_name = bucket_name,
                                   !.input_blob_name = event[2]], "upload")
    /\ UNCHANGED <<config, locator, calls, fs, gcs>>

(***************************************************************************)
(* parse_gcs_uri                                                           *)
(***************************************************************************)
\* longest container and object path tried
MaxPartLen == 2

UriAlphabet == {"b", ".", "/", "\n"}

UriParts == UNION {[1 .. n -> UriAlphabet] : n \in 0 .. MaxPartLen}

UriPrefixes ==
    {<<"g", "s", ":", "/", "/">>, <<"G", "S", ":", "/", "/">>,
     <<"s", "3", ":", "/", "/">>, <<"g", "s", ":", "/">>, <<":", "/", "/">>,
     <<"x", "g", "s", ":", "/", "/">>, <<>>}

\* the strings handed to parse_gcs_uri
Locators ==
    {prefix \o container \o sep \o path :
        prefix \in UriPrefixes, container \in UriParts,
        sep \in {<<"/">>, <<>>}, path \in UriParts}

\* parse_gcs_uri returns None
NoMatch == <<>>

\* the slashes after "gs://" that can end the container
Separators(uri) == {k \in 7 .. Len(uri) - 1 : uri[k] = "/"}

\* the pattern with a greedy (.+) for the container: the last slash separates
parse_gcs_uri_greedy(uri) ==
    IF /\ Len(uri) >= 8
       /\ SubSeq(uri, 1, 5) = <<"g", "s", ":", "/", "/">>
       /\ Separators(uri) # {}
    THEN LET k == CHOOSE k \in Separators(uri) : \A m \in Separators(uri) : m <= k
         IN  <<SubSeq(uri, 6, k - 1), SubSeq(uri, k + 1, Len(uri))>>
    ELSE NoMatch

\* re.fullmatch(r"gs://([^/]+)/(.+)", gcs_uri): the literal "gs://", one or
\* more characters other than "/", a "/", then one or more characters other
\* than "\n" up to the end of the string; the two groups, or None
parse_gcs_uri(uri) ==
    IF \E k \in Separators(uri) :
          /\ SubSeq(uri, 1, 5) = <<"g", "s", ":", "/", "/">>
          /\ \A m \in 6 .. k - 1 : uri[m] # "/"
          /\ \A m \in k + 1 .. Len(uri) : uri[m] # "\n"
    THEN LET k == CHOOSE k \in Separators(uri) : \A m \in 6 .. k - 1 : uri[m] # "/"
         IN  <<SubSeq(uri, 6, k - 1), SubSeq(uri, k + 1, Len(uri))>>
    ELSE NoMatch

\* the process with the defaults of its configuration and no invocation
DefaultEnvironment ==
    [OUTPUT_GCS_BUCKET_NAME |-> "",
     DEFAULT_LANGUAGE |-> <<"E", "N">>,
     DEFAULT_SPEAKER |-> "EN-Default"]

InitParse ==
    /\ concurrency = 0
    /\ world = WholeWorld
    /\ LoadModule(TRUE, DefaultEnvironment)
    /\ gcs_uri \in Locators
    /\ parsed = NotParsed

Parse ==
    /\ ~parsed.called
    /\ parsed' = [called |-> TRUE, result |-> parse_gcs_uri(gcs_uri)]
    /\ UNCHANGED <<config, gcs_uri, frame, calls, fs, gcs>>

NextParse == Parse

\* parse_gcs_uri applied to one locator string
SpecParse == InitParse /\ [][NextParse]_vars

NextDirect ==
    \/ Next
    \/ \E i \in Invocations : CallReadTextFromGcs(i)
    \/ \E i \in Invocations : CallUploadToGcs(i)

\* the trigger and the helpers, each entered by the platform or a caller
SpecDirect == Init /\ [][NextDirect]_vars

\* every statement of the handler runs to its end: a collaborator call
\* returns or raises
SpecLive == Spec /\ WF_vars(Next)

(***************************************************************************)
(* Concurrent invocations in one process                                   *)
(***************************************************************************)
\* one well-formed event, one text, one catalog
OneWorld ==
    [events |-> {<<"in", <<"a", ".", "t", "x", "t">>>>},
     texts |-> {<<"h", "i">>},
     catalogs |-> {<<[label |-> "EN-US", id |-> 10], [label |-> "EN-BR", id |-> 11],
                     [label |-> "EN-Default", id |-> 14]>>}]

\* a configured process
GoodEnvironment ==
    [OUTPUT_GCS_BUCKET_NAME |-> "out",
     DEFAULT_LANGUAGE |-> <<"E", "N">>,
     DEFAULT_SPEAKER |-> "EN-Default"]

InitConc ==
    /\ concurrency = NumInvocations
    /\ world = OneWorld
    /\ NoLocator
    /\ LoadModule(TRUE, GoodEnvironment)

\* the platform runs up to NumInvocations invocations of the trigger at once
SpecConc == InitConc /\ [][Next]_vars

(***************************************************************************)
(* Vocabulary of the properties                                            *)
(***************************************************************************)
Started == {i \in Invocations : frame[i].pc # "idle"}

Ended == {i \in Invocations : frame[i].pc = "done"}

CallsOf(i, op) == {k \in DOMAIN calls[i] : calls[i][k].op = op}

Made(i, op, res) == \E k \in CallsOf(i, op) : calls[i][k].res = res

LastCallIs(i, op, res) ==
    /\ calls[i] # <<>>
    /\ calls[i][Len(calls[i])].op = op
    /\ calls[i][Len(calls[i])].res = res

\* the invocation touched neither storage, engine nor filesystem
NoWork(i) == calls[i] = <<>>

\* neither engine, temp file nor upload
NoSynthesisNoOutput(i) ==
    /\ CallsOf(i, "TTS") = {}
    /\ CallsOf(i, "NamedTemporaryFile") = {}
    /\ CallsOf(i, "tts_to_file") = {}
    /\ CallsOf(i, "blob.upload_from_filename") = {}
    /\ frame[i].temp_output_path = None

\* the invocation left the try region right after the engine was built,
\* that is, speaker selection raised
FailedAtSelection(i) ==
    /\ LastCallIs(i, "TTS", "ok")
    /\ frame[i].pc \in {"finally", "done"}

SameIgnoringCase(s, t) ==
    /\ Len(s) = Len(t)
    /\ \A k \in 1 .. Len(s) : LowerChar(s[k]) = LowerChar(t[k])

English == <<"E", "N">>

(***************************************************************************)
(* C1: temp file after the invocation                                      *)
(***************************************************************************)
\* C1 as claimed: once an invocation has ended, the temporary file it used
\* does not exist, whatever the exit path.
C1_TempFileGoneAfterEveryExit ==
    \A i \in Ended :
        frame[i].temp_output_path # None => frame[i].temp_output_path \notin fs

\* C1, amended: once an invocation that created a temporary file has ended,
\* it has called os.remove on that file, and the file still exists exactly
\* when that os.remove failed (the failure is only logged).
C1_TempFileGoneUnlessRemoveFailed ==
    \A i \in Ended :
        frame[i].temp_output_path # None =>
            \E k \in CallsOf(i, "os.remove") :
                /\ calls[i][k].path = frame[i].temp_output_path
                /\ (frame[i].temp_output_path \in fs) <=> (calls[i][k].res = "OSError")

\* an invocation whose synthesis failed has ended with its file removed
C1_Witness ==
    \E i \in Ended :
        /\ frame[i].temp_output_path # None
        /\ frame[i].temp_output_path \notin fs
        /\ frame[i].outcome.kind = "raised"
        /\ Made(i, "os.remove", "ok")

(***************************************************************************)
(* C2: objects that are not .txt                                           *)
(***************************************************************************)
\* C2 as claimed: for an object name not ending in ".txt" the invocation
\* returns normally and does no read, synthesis or upload, in every process
\* state.
C2_NonTxtAlwaysAcknowledged ==
    \A i \in Ended :
        (frame[i].input_blob_name # <<>>
            /\ ~EndsWith(frame[i].input_blob_name, DotTxt)) =>
            /\ frame[i].outcome.kind = "returned"
            /\ NoWork(i)

\* C2, amended: for an object name not ending in ".txt" (letter case
\* ignored) the invocation does no read, synthesis or upload; it returns
\* normally with status 200 when the storage client and the output bucket
\* are available, raises RuntimeError when the client is missing, and
\* raises ValueError when the client is there but the output bucket is not
\* configured.
C2_NonTxtSkippedWhenConfigured ==
    \A i \in Ended :
        LET name == frame[i].input_blob_name
            tail == SubSeq(name, Len(name) - 3, Len(name))
        IN  (Len(name) < 4 \/ ~SameIgnoringCase(tail, DotTxt)) =>
                /\ NoWork(i)
                /\ gcs = {}
                /\ (storage_client /\ OUTPUT_GCS_BUCKET_NAME # "") =>
                       /\ frame[i].outcome.kind = "returned"
                       /\ frame[i].outcome.status = 200
                /\ ~storage_client => frame[i].outcome = Raised("RuntimeError")
                /\ (storage_client /\ OUTPUT_GCS_BUCKET_NAME = "") =>
                       frame[i].outcome = Raised("ValueError")

\* "a.md" arrived in a configured process and was skipped
C2_Witness ==
    \E i \in Ended :
        /\ frame[i].input_blob_name = <<"a", ".", "m", "d">>
        /\ frame[i].input_bucket_name = "in"
        /\ storage_client
        /\ OUTPUT_GCS_BUCKET_NAME = "out"
        /\ frame[i].outcome = Returned("Not a TXT file, skipping.", 200)

(***************************************************************************)
(* C3, C4, C5: failures of the source read                                 *)
(***************************************************************************)
\* the read ended on: the object is missing, or reading it is forbidden
ReadFailedMissingOrForbidden(i) ==
    \/ LastCallIs(i, "blob.exists", "False")
    \/ LastCallIs(i, "blob.exists", "Forbidden")
    \/ LastCallIs(i, "blob.download_as_bytes", "NotFound")
    \/ LastCallIs(i, "blob.download_as_bytes", "Forbidden")

\* the read ended on another storage failure
ReadFailedOtherwise(i) ==
    \/ LastCallIs(i, "blob.exists", "ServiceUnavailable")
    \/ LastCallIs(i, "blob.download_as_bytes", "ServiceUnavailable")
    \/ LastCallIs(i, "blob.download_as_bytes", "UnicodeDecodeError")

\* C3: when the source read fails because the object is missing or reading
\* is forbidden, the invocation returns normally with the non-retry status
\* 200, and there is no engine, no temp file and no output object.
C3_MissingOrForbiddenAcknowledged ==
    \A i \in Ended :
        ReadFailedMissingOrForbidden(i) =>
            /\ frame[i].outcome.kind = "returned"
            /\ frame[i].outcome.status = 200
            /\ NoSynthesisNoOutput(i)
            /\ gcs = {}

\* C4 as claimed: another storage failure of the source read leaves the
\* invocation as a raised error, never as a normal return.
C4_TransientReadFailureRaised ==
    \A i \in Ended :
        ReadFailedOtherwise(i) => frame[i].outcome.kind = "raised"

\* C4, amended: a storage failure of the source read that is neither
\* not-found nor permission-denied reaches the trigger as RuntimeError, is
\* caught there, and the invocation returns normally with status 500; no
\* engine is built, no temp file is made and nothing is uploaded.
C4_TransientReadFailureReturns500 ==
    \A i \in Ended :
        ReadFailedOtherwise(i) =>
            /\ frame[i].read_error = "RuntimeError"
            /\ frame[i].outcome.kind = "returned"
            /\ frame[i].outcome.status = 500
            /\ NoSynthesisNoOutput(i)

\* the download failed with a backend error and the invocation has ended
C4_Witness ==
    \E i \in Ended :
        /\ LastCallIs(i, "blob.download_as_bytes", "ServiceUnavailable")
        /\ frame[i].outcome = Returned("Error processing input file", 500)

\* C5: when blob.exists() reports the object absent, read_text_from_gcs
\* fails with FileNotFoundError and with no other kind, and no download is
\* attempted.
C5_AbsentObjectIsFileNotFound ==
    \A i \in Invocations :
        Made(i, "blob.exists", "False") =>
            /\ frame[i].read_error = "FileNotFoundError"
            /\ CallsOf(i, "blob.download_as_bytes") = {}

(***************************************************************************)
(* C6: the configured language                                             *)
(***************************************************************************)
\* the source was read and its text is not empty
ReadNonEmpty(i) ==
    /\ Made(i, "blob.download_as_bytes", "ok")
    /\ frame[i].text_content # <<>>

\* the invocation ended on the language check
RejectedLanguage(i) ==
    /\ frame[i].pc = "done"
    /\ LastCallIs(i, "blob.download_as_bytes", "ok")
    /\ frame[i].outcome = Raised("ValueError")

\* a language of `langs`, spelled in any letter case, is accepted in its
\* upper-case form; any other is rejected before engine, synthesis, upload
LanguagesAccepted(langs) ==
    \A i \in Invocations :
        ReadNonEmpty(i) =>
            IF \E l \in langs : SameIgnoringCase(environ.DEFAULT_LANGUAGE, l)
            THEN /\ DEFAULT_LANGUAGE \in langs
                 /\ SameIgnoringCase(environ.DEFAULT_LANGUAGE, DEFAULT_LANGUAGE)
                 /\ ~RejectedLanguage(i)
                 /\ frame[i].pc # "done" \/ CallsOf(i, "TTS") # {}
            ELSE /\ RejectedLanguage(i)
                 /\ NoSynthesisNoOutput(i)

\* C6 as claimed: every configured language whose upper-case form is one of
\* EN, ES, FR, ZH, JP, KR is accepted and the invocation goes on to the
\* engine; every other value fails with ValueError and nothing is
\* synthesized or uploaded.
C6_SixLanguagesAccepted ==
    LanguagesAccepted({<<"E", "N">>, <<"E", "S">>, <<"F", "R">>,
                       <<"Z", "H">>, <<"J", "P">>, <<"K", "R">>})

\* C6, amended: the same with the set EN, ES, FR, for an invocation that
\* has read a non-empty source text (the language is checked after the
\* read).
C6_ThreeLanguagesAccepted ==
    LanguagesAccepted({<<"E", "N">>, <<"E", "S">>, <<"F", "R">>})

\* "fr" was configured and the invocation stands before the engine
C6_Witness ==
    \E i \in Invocations :
        /\ environ.DEFAULT_LANGUAGE = <<"f", "r">>
        /\ DEFAULT_LANGUAGE = <<"F", "R">>
        /\ frame[i].pc = "tts"

(***************************************************************************)
(* C7, C8, C9: speaker selection                                           *)
(***************************************************************************)
\* the engine was built and reported its catalog, so step 5 has run
SelectionRan(i) == Made(i, "TTS", "ok")

HasLabel(catalog, label) == \E k \in DOMAIN catalog : catalog[k].label = label

\* the selected identity is the catalog's entry for `label`
SelectedEntryOf(i, label) ==
    \E k \in DOMAIN frame[i].speaker_ids :
        /\ frame[i].speaker_ids[k].label = label
        /\ frame[i].selected_speaker_id_for_tts = frame[i].speaker_ids[k].id

\* the label English selection works with: the configured one when it is on
\* the allow-list, "EN-Default" otherwise
EffectiveEnglishLabel ==
    IF DEFAULT_SPEAKER \in {"EN-Default", "EN-US", "EN-BR", "EN_INDIA", "EN-AU"}
    THEN DEFAULT_SPEAKER
    ELSE "EN-Default"

\* C7: for English, a configured label off the allow-list is replaced by
\* "EN-Default" and that replacement does not fail the invocation; whenever
\* the effective label is a key of the catalog, selection succeeds with
\* exactly the catalog's entry for it.
C7_EnglishLabelFallbackAndLookup ==
    \A i \in Invocations :
        (DEFAULT_LANGUAGE = English /\ SelectionRan(i)) =>
            /\ frame[i].speaker_name_to_use = EffectiveEnglishLabel
            /\ HasLabel(frame[i].speaker_ids, EffectiveEnglishLabel) =>
                   /\ SelectedEntryOf(i, EffectiveEnglishLabel)
                   /\ ~FailedAtSelection(i)
            /\ (DEFAULT_SPEAKER # EffectiveEnglishLabel /\ frame[i].speaker_ids # <<>>) =>
                   ~FailedAtSelection(i)

\* "robot" was configured, "EN-Default" took its place and was found
C7_Witness ==
    \E i \in Invocations :
        /\ DEFAULT_LANGUAGE = English
        /\ DEFAULT_SPEAKER = "robot"
        /\ frame[i].speaker_name_to_use = "EN-Default"
        /\ frame[i].selected_speaker_id_for_tts = 14
        /\ frame[i].pc = "mktemp"

\* C8: for English, when the effective label is on the allow-list but is no
\* key of a non-empty catalog, the first entry of the catalog is selected
\* and selection does not fail.
C8_EnglishFallsBackToFirstEntry ==
    \A i \in Invocations :
        (/\ DEFAULT_LANGUAGE = English
         /\ SelectionRan(i)
         /\ frame[i].speaker_ids # <<>>
         /\ ~HasLabel(frame[i].speaker_ids, EffectiveEnglishLabel)) =>
            /\ frame[i].selected_speaker_id_for_tts = Head(frame[i].speaker_ids).id
            /\ ~FailedAtSelection(i)

\* "EN-Default" is missing from a two-entry catalog; its first entry is taken
C8_Witness ==
    \E i \in Invocations :
        /\ DEFAULT_LANGUAGE = English
        /\ DEFAULT_SPEAKER = "EN-Default"
        /\ Len(frame[i].speaker_ids) = 2
        /\ frame[i].speaker_ids[1].label = "EN-AU"
        /\ frame[i].selected_speaker_id_for_tts = 13
        /\ frame[i].pc = "mktemp"

\* C9: for a language other than English, a configured label that is a
\* catalog key selects its entry; a label absent from a non-empty catalog
\* selects the first entry without failing; and for every language an empty
\* catalog makes selection fail with KeyError, with no temp file, no
\* synthesis and no upload.
C9_OtherLanguagesAndEmptyCatalog ==
    \A i \in Invocations :
        SelectionRan(i) =>
            /\ (/\ DEFAULT_LANGUAGE # English
                /\ HasLabel(frame[i].speaker_ids, DEFAULT_SPEAKER)) =>
                   /\ SelectedEntryOf(i, DEFAULT_SPEAKER)
                   /\ ~FailedAtSelection(i)
            /\ (/\ DEFAULT_LANGUAGE # English
                /\ frame[i].speaker_ids # <<>>
                /\ ~HasLabel(frame[i].speaker_ids, DEFAULT_SPEAKER)) =>
                   /\ frame[i].selected_speaker_id_for_tts = Head(frame[i].speaker_ids).id
                   /\ ~FailedAtSelection(i)
            /\ frame[i].speaker_ids = <<>> =>
                   /\ FailedAtSelection(i)
                   /\ frame[i].selected_speaker_id_for_tts = None
                   /\ CallsOf(i, "NamedTemporaryFile") = {}
                   /\ CallsOf(i, "tts_to_file") = {}
                   /\ CallsOf(i, "blob.upload_from_filename") = {}
                   /\ IF frame[i].pc = "done"
                      THEN frame[i].outcome = Raised("KeyError")
                      ELSE frame[i].pending = Raised("KeyError")

\* Spanish with the label "robot": the first of the catalog <<FR, ES>>
C9_Witness ==
    \E i \in Invocations :
        /\ DEFAULT_LANGUAGE = <<"E", "S">>
        /\ DEFAULT_SPEAKER = "robot"
        /\ Len(frame[i].speaker_ids) = 2
        /\ frame[i].speaker_ids[1].label = "FR"
        /\ frame[i].selected_speaker_id_for_tts = 30
        /\ frame[i].pc = "mktemp"

(***************************************************************************)
(* C10: the uploaded object                                                *)
(***************************************************************************)
UploadsOf(i) ==
    {k \in CallsOf(i, "blob.upload_from_filename") : calls[i][k].res = "ok"}

\* the name without its last four characters
WithoutLastFour(name) == SubSeq(name, 1, Len(name) - 4)

\* the last path component of stem \o ".txt" is dots followed by "txt"
OnlyDotsBeforeExtension(stem) ==
    \A k \in DOMAIN stem :
        (\A m \in k .. Len(stem) : stem[m] # "/") => stem[k] = "."

\* C10 as claimed: an invocation that uploads, uploads exactly one object,
\* to the configured output bucket, named as the input name without its
\* ".txt" suffix followed by ".wav".
C10_OutputNameIsStemPlusWav ==
    \A i \in Invocations :
        UploadsOf(i) # {} =>
            /\ Cardinality(CallsOf(i, "blob.upload_from_filename")) = 1
            /\ \A k \in UploadsOf(i) :
                  /\ calls[i][k].bucket = environ.OUTPUT_GCS_BUCKET_NAME
                  /\ calls[i][k].name =
                         WithoutLastFour(frame[i].input_blob_name) \o <<".", "w", "a", "v">>

\* C10, amended: an invocation that uploads, uploads exactly one object, to
\* the configured output bucket (the input bucket only when both are
\* configured equal); its name is the input name without its four-character
\* suffix followed by ".wav", except that a name whose last path component
\* is only dots followed by "txt" (".txt", "d/.txt") keeps its whole name
\* before ".wav".
C10_OutputNameFollowsSplitext ==
    \A i \in Invocations :
        UploadsOf(i) # {} =>
            /\ Cardinality(CallsOf(i, "blob.upload_from_filename")) = 1
            /\ \A k \in UploadsOf(i) :
                  LET name == frame[i].input_blob_name
                      stem == WithoutLastFour(name)
                  IN  /\ calls[i][k].bucket = environ.OUTPUT_GCS_BUCKET_NAME
                      /\ calls[i][k].bucket = frame[i].input_bucket_name =>
                             environ.OUTPUT_GCS_BUCKET_NAME = frame[i].input_bucket_name
                      /\ calls[i][k].name =
                             IF OnlyDotsBeforeExtension(stem)
                             THEN name \o <<".", "w", "a", "v">>
                             ELSE stem \o <<".", "w", "a", "v">>
                      /\ gcs = {<<calls[i][k].bucket, calls[i][k].name>>}

\* "d.v/b.c.txt" from bucket "in" was uploaded as "d.v/b.c.wav" to "out"
C10_Witness ==
    \E i \in Invocations :
        /\ frame[i].input_bucket_name = "in"
        /\ frame[i].input_blob_name =
               <<"d", ".", "v", "/", "b", ".", "c", ".", "t", "x", "t">>
        /\ gcs = {<<"out", <<"d", ".", "v", "/", "b", ".", "c", ".", "w", "a", "v">>>>}
        /\ frame[i].outcome = Returned("Processing successful", 200)

(***************************************************************************)
(* C11: the storage client failed to initialize                            *)
(***************************************************************************)
\* without a client an invocation has called no collaborator, is not past
\* the point where the client is checked, and ends raising RuntimeError
FailsFastWithoutClient(i) ==
    /\ calls[i] = <<>>
    /\ frame[i].entry = "melo_tts_gcs_trigger" => frame[i].pc = "done"
    /\ frame[i].entry = "read_text_from_gcs" => frame[i].pc \in {"read", "done"}
    /\ frame[i].entry = "upload_to_gcs" => frame[i].pc \in {"upload", "done"}
    /\ frame[i].pc = "done" => frame[i].outcome = Raised("RuntimeError")

\* C11: when the storage client failed to initialize, every invocation of
\* melo_tts_gcs_trigger, read_text_from_gcs and upload_to_gcs raises
\* RuntimeError (storage unavailable) before any storage operation,
\* synthesis or temp-file creation, nothing is ever read, written or
\* created, and no step changes the client handle.
C11_FailFastWithoutStorageClient ==
    /\ [](~storage_client =>
            /\ \A i \in Invocations : FailsFastWithoutClient(i)
            /\ fs = {}
            /\ gcs = {})
    /\ [][storage_client' = storage_client]_vars

\* the trigger was invoked for "a.txt" without a client and raised
C11_Witness ==
    \E i \in Ended :
        /\ ~storage_client
        /\ frame[i].entry = "melo_tts_gcs_trigger"
        /\ frame[i].input_blob_name = <<"a", ".", "t", "x", "t">>
        /\ frame[i].input_bucket_name = "in"
        /\ frame[i].outcome = Raised("RuntimeError")

(***************************************************************************)
(* C12: configuration errors and unexpected errors are re-raised           *)
(***************************************************************************)
\* the error the invocation met, by what was configured and by what its
\* collaborators answered; "" when it met none of those C12 lists
ErrorMet(i) ==
    IF storage_client /\ environ.OUTPUT_GCS_BUCKET_NAME = "" THEN "ValueError"
    ELSE IF /\ ReadNonEmpty(i)
            /\ ~\E l \in {<<"E", "N">>, <<"E", "S">>, <<"F", "R">>} :
                   SameIgnoringCase(environ.DEFAULT_LANGUAGE, l)
         THEN "ValueError"
    ELSE IF Made(i, "TTS", "RuntimeError") \/ Made(i, "tts_to_file", "RuntimeError")
         THEN "RuntimeError"
    ELSE IF Made(i, "TTS", "ValueError") \/ Made(i, "tts_to_file", "ValueError")
         THEN "ValueError"
    ELSE IF Made(i, "TTS", "ok") /\ frame[i].speaker_ids = <<>> THEN "KeyError"
    ELSE IF Made(i, "blob.upload_from_filename", "Forbidden") THEN "PermissionError"
    ELSE IF Made(i, "blob.upload_from_filename", "ServiceUnavailable")
         THEN "RuntimeError"
    ELSE ""

\* the temp file was created and the cleanup phase has dealt with it
CleanupRan(i) ==
    /\ calls[i][Len(calls[i])].op = "os.remove"
    /\ calls[i][Len(calls[i])].path = frame[i].temp_output_path

DeliveryBefore(c) ==
    IF c.op = "blob.upload_from_filename" /\ c.res = "ok"
    THEN Returned("Processing successful", 200)
    ELSE IF c.op = "blob.upload_from_filename" /\ c.res = "Forbidden"
    THEN Raised("PermissionError")
    ELSE IF c.op = "blob.upload_from_filename" THEN Raised("RuntimeError")
    ELSE Raised(c.res)

\* C13: the outcome of an invocation whose cleanup called os.remove is
\* fixed by what happened before the cleanup: it is the same value or the
\* same error whether os.remove succeeded or failed.
C13_RemoveFailureNotEscalated ==
    \A i \in Ended :
        \A k \in CallsOf(i, "os.remove") :
            /\ k = Len(calls[i])
            /\ k > 1
            /\ calls[i][k - 1].op \in {"tts_to_file", "blob.upload_from_filename"}
            /\ frame[i].outcome = DeliveryBefore(calls[i][k - 1])

\* os.remove failed after a successful upload; the invocation still
\* acknowledged with "Processing successful"
C13_Witness ==
    \E i \in Ended :
        /\ Made(i, "os.remove", "OSError")
        /\ frame[i].temp_output_path \in fs
        /\ frame[i].outcome = Returned("Processing successful", 200)

(***************************************************************************)
(* C14: the language is validated before any remote call                   *)
(***************************************************************************)
\* the invocation ended on the error for an invalid configured language
EndedOnInvalidLanguage(i) ==
    /\ frame[i].pc = "done"
    /\ storage_client
    /\ environ.OUTPUT_GCS_BUCKET_NAME # ""
    /\ CallsOf(i, "TTS") = {}
    /\ frame[i].outcome = Raised("ValueError")

\* C14: an invocation that ends with the invalid-language error has made no
\* remote call: neither the existence check nor the download of the source.
C14_InvalidLanguageFailsBeforeRemoteCalls ==
    \A i \in Invocations :
        EndedOnInvalidLanguage(i) =>
            /\ CallsOf(i, "blob.exists") = {}
            /\ CallsOf(i, "blob.download_as_bytes") = {}

(***************************************************************************)
(* C15: parse_gcs_uri                                                      *)
(***************************************************************************)
GsScheme == <<"g", "s", ":", "/", "/">>

\* scheme://container/object-path: a non-empty scheme, "://", a non-empty
\* container without "/", a "/", a non-empty object path
OfLocatorForm(uri) ==
    \E j \in 2 .. Len(uri), k \in 1 .. Len(uri) - 1 :
        /\ j + 3 < k
        /\ SubSeq(uri, j, j + 2) = <<":", "/", "/">>
        /\ uri[k] = "/"
        /\ \A m \in j + 3 .. k - 1 : uri[m] # "/"

ValidContainers == {c \in UriParts : c # <<>> /\ \A k \in DOMAIN c : c[k] # "/"}

ValidPaths == UriParts \ {<<>>}

HasLineFeed(path) == \E k \in DOMAIN path : path[k] = "\n"

\* C15 as claimed: a string not of the form scheme://container/object-path
\* is rejected, and the locator built from any valid container and object
\* path parses to exactly that pair.
C15_ParseRoundTrips ==
    parsed.called =>
        /\ ~OfLocatorForm(gcs_uri) => parsed.result = NoMatch
        /\ \A c \in ValidContainers, path \in ValidPaths :
               gcs_uri = GsScheme \o c \o <<"/">> \o path => parsed.result = <<c, path>>

\* C15, amended: a string not of the form scheme://container/object-path,
\* or whose scheme is not literally "gs", is rejected by returning None
\* (nothing is raised); the locator "gs://" container "/" object-path built
\* from a valid container and an object path without a line feed parses to
\* exactly that pair, and with a line feed in the object path it is
\* rejected.
C15_ParseRoundTripsWithoutLineFeed ==
    parsed.called =>
        /\ ~OfLocatorForm(gcs_uri) => parsed.result = NoMatch
        /\ (Len(gcs_uri) < 5 \/ SubSeq(gcs_uri, 1, 5) # GsScheme) => parsed.result = NoMatch
        /\ \A c \in ValidContainers, path \in ValidPaths :
               gcs_uri = GsScheme \o c \o <<"/">> \o path =>
                   parsed.result = IF HasLineFeed(path) THEN NoMatch ELSE <<c, path>>

\* "gs://b./b/" was parsed into "b." and "b/"
C15_Witness ==
    /\ parsed.called
    /\ gcs_uri = <<"g", "s", ":", "/", "/", "b", ".", "/", "b", "/">>
    /\ parsed.result = <<<<"b", ".">>, <<"b", "/">>>>

(***************************************************************************)
(* C16: the temp file belongs to one invocation                            *)
(***************************************************************************)
\* p is the temp file of invocation i: i created it and has not removed it
OwnsFile(i, p) ==
    /\ frame[i].temp_output_path = p
    /\ p # None
    /\ frame[i].pc # "done" \/ Made(i, "os.remove", "OSError")

UsesTempFile == {"tts_to_file", "blob.upload_from_filename", "os.remove"}

\* C16: whatever the interleaving, no two invocations own the same temp
\* path, and every synthesis, upload and deletion of an invocation is on its
\* own temp path, which no other invocation owns at that moment.
C16_TempFileOwnedByOneInvocation ==
    /\ [](\A i, j \in Invocations, p \in TempPaths :
              OwnsFile(i, p) /\ OwnsFile(j, p) => i = j)
    /\ [][\A i \in Invocations :
              calls'[i] # calls[i] =>
                  LET c == calls'[i][Len(calls'[i])]
                  IN  c.op \in UsesTempFile =>
                          /\ c.path # None
                          /\ c.path = frame[i].temp_output_path
                          /\ \A j \in Invocations \ {i} : ~OwnsFile(j, c.path)]_vars

\* one invocation is about to clean up after its upload while another is
\* about to upload; their files are different and both exist
C16_Witness ==
    \E i, j \in Invocations :
        /\ frame[i].pc = "finally"
        /\ Made(i, "blob.upload_from_filename", "ok")
        /\ frame[j].pc = "upload"
        /\ frame[i].temp_output_path # frame[j].temp_output_path
        /\ {frame[i].temp_output_path, frame[j].temp_output_path} \subseteq fs

(***************************************************************************)
(* C17: empty source text                                                  *)
(***************************************************************************)
OnlyWhitespace(content) == \A k \in DOMAIN content : content[k] \in Whitespace

\* the trigger downloaded a source text that is empty once trimmed
ReadBlankText(i) ==
    /\ frame[i].entry = "melo_tts_gcs_trigger"
    /\ \E k \in CallsOf(i, "blob.download_as_bytes") :
           /\ calls[i][k].res = "ok"
           /\ OnlyWhitespace(calls[i][k].data)

\* C17: when the source text is empty after trimming, the invocation ends
\* right after the read with the acknowledgment "Empty or unreadable input
\* file." (status 200): no engine, no temporary file, no upload.
C17_EmptyTextAcknowledgedWithoutSynthesis ==
    \A i \in Invocations :
        ReadBlankText(i) =>
            /\ frame[i].pc = "done"
            /\ frame[i].text_content = <<>>
            /\ frame[i].outcome = Returned("Empty or unreadable input file.", 200)
            /\ LastCallIs(i, "blob.download_as_bytes", "ok")
            /\ NoSynthesisNoOutput(i)
            /\ fs = {}
            /\ gcs = {}

\* a source holding a blank and a line feed was read and acknowledged
C17_Witness ==
    \E i \in Ended :
        /\ ReadBlankText(i)
        /\ calls[i][Len(calls[i])].data = <<" ", "\n">>
        /\ frame[i].outcome = Returned("Empty or unreadable input file.", 200)

(***************************************************************************)
(* C18: no retry inside an invocation                                      *)
(***************************************************************************)
AttemptedOnce ==
    {"blob.exists", "blob.download_as_bytes", "TTS", "NamedTemporaryFile",
     "tts_to_file", "blob.upload_from_filename", "os.remove"}

\* C18: in one invocation the source is read at most once, synthesis is
\* called at most once and the upload is attempted at most once, whatever
\* fails; an invocation that started ends, with exactly one outcome, either
\* returned or raised, and does nothing after that.
C18_NoRetryOneOutcome ==
    /\ [](\A i \in Invocations :
              /\ \A op \in AttemptedOnce : Cardinality(CallsOf(i, op)) <= 1
              /\ frame[i].pc = "done" => frame[i].outcome.kind \in {"returned", "raised"}
              /\ frame[i].pc # "done" => frame[i].outcome = NoOutcome)
    /\ [][\A i \in Invocations :
              frame[i].pc = "done" => frame'[i] = frame[i] /\ calls'[i] = calls[i]]_vars
    /\ \A i \in Invocations : (frame[i].pc # "idle") ~> (frame[i].pc = "done")

\* the read failed with a transient error and was not tried again: the one
\* call of the invocation is the failed existence check
C18_Witness ==
    \E i \in Ended :
        /\ calls[i] = <<[op |-> "blob.exists", res |-> "ServiceUnavailable"]>>
        /\ frame[i].outcome.kind = "returned"
        /\ frame[i].outcome.status = 500

(***************************************************************************)
(* C19: what "Processing successful" stands for                            *)
(***************************************************************************)
Succeeded(i) ==
    /\ frame[i].entry = "melo_tts_gcs_trigger"
    /\ \/ frame[i].outcome = Returned("Processing successful", 200)
       \/ frame[i].pending = Returned("Processing successful", 200)

\* call number k of invocation i was `op` and ended with `res`
CallIs(i, k, op, res) == calls[i][k].op = op /\ calls[i][k].res = res

\* C19: "Processing successful" is delivered only by an invocation that, in
\* this order, found and downloaded a source whose trimmed text is not
\* empty, built the engine and selected a speaker, completed the synthesis
\* and completed the upload into the output bucket; and an invocation
\* attempts an upload only after its synthesis completed.
C19_SuccessMeansReadSynthesisUpload ==
    \A i \in Invocations :
        /\ Succeeded(i) =>
               /\ Len(calls[i]) >= 6
               /\ CallIs(i, 1, "blob.exists", "True")
               /\ CallIs(i, 2, "blob.download_as_bytes", "ok")
               /\ ~OnlyWhitespace(calls[i][2].data)
               /\ frame[i].text_content # <<>>
               /\ CallIs(i, 3, "TTS", "ok")
               /\ frame[i].selected_speaker_id_for_tts # None
               /\ \E k \in DOMAIN frame[i].speaker_ids :
                      frame[i].speaker_ids[k].id = frame[i].selected_speaker_id_for_tts
               /\ CallIs(i, 4, "NamedTemporaryFile", "ok")
               /\ CallIs(i, 5, "tts_to_file", "ok")
               /\ CallIs(i, 6, "blob.upload_from_filename", "ok")
               /\ calls[i][6].bucket = OUTPUT_GCS_BUCKET_NAME
               /\ <<calls[i][6].bucket, calls[i][6].name>> \in gcs
        /\ frame[i].entry = "melo_tts_gcs_trigger" =>
               \A k \in CallsOf(i, "blob.upload_from_filename") :
                   /\ k > 1
                   /\ CallIs(i, k - 1, "tts_to_file", "ok")

\* an invocation went through read, selection, synthesis, upload and
\* cleanup and delivered "Processing successful"
C19_Witness ==
    \E i \in Ended :
        /\ frame[i].outcome = Returned("Processing successful", 200)
        /\ Len(calls[i]) = 7
        /\ Made(i, "os.remove", "ok")
        /\ gcs # {}

(***************************************************************************)
(* C20: malformed events                                                   *)
(***************************************************************************)
\* the trigger received an event without a bucket or without a name, in a
\* process that has its storage client and its output bucket
MalformedEvent(i) ==
    /\ frame[i].entry = "melo_tts_gcs_trigger"
    /\ storage_client
    /\ OUTPUT_GCS_BUCKET_NAME # ""
    /\ frame[i].input_bucket_name = "" \/ frame[i].input_blob_name = <<>>

\* C20: with the storage client and the output bucket available, an event
\* whose bucket or name is missing or empty is acknowledged at once with
\* "Malformed event data" (status 200), and the invocation reads nothing,
\* synthesizes nothing and uploads nothing.
C20_MalformedEventAcknowledged ==
    \A i \in Invocations :
        MalformedEvent(i) =>
            /\ frame[i].pc = "done"
            /\ frame[i].outcome = Returned("Malformed event data", 200)
            /\ NoWork(i)
            /\ frame[i].temp_output_path = None
            /\ fs = {}
            /\ gcs = {}

\* an event naming "a.txt" but no bucket was acknowledged as malformed
C20_Witness ==
    \E i \in Ended :
        /\ MalformedEvent(i)
        /\ frame[i].input_bucket_name = ""
        /\ frame[i].input_blob_name = <<"a", ".", "t", "x", "t">>
        /\ frame[i].outcome = Returned("Malformed event data", 200)

=============================================================================
